---- MODULE Spec2Model ----
(***************************************************************************)
(* A model of src/src/rmdp.py (class MDP): the occupancy-frequency engine  *)
(* of ChebyshevROIL.                                                       *)
(*                                                                         *)
(* Numbers.  Real quantities (occupancy frequencies, p_0, radii, eps,      *)
(* returns) are exact fixed-point integers in units of 1/One.  The feature *)
(* matrix phi, the reward and the transition tensor P hold small integers  *)
(* and are kept unscaled.  gamma is the rational GammaNum/GammaDen.  No    *)
(* operation of the model rounds: every division it performs is exact for  *)
(* the inputs it is given, so float rounding is the only thing left out.   *)
(***************************************************************************)
EXTENDS Integers, Sequences, FiniteSets, TLC

VARIABLES mdp, model, call

vars == <<mdp, model, call>>

-----------------------------------------------------------------------------
(* Bounds of the model.                                                    *)

\* most (state, action) pairs in a demonstration set, all trajectories together
MaxPairs == 3

-----------------------------------------------------------------------------
(* Constructor arguments that are the same in every run of the model.      *)

num_states == 2
num_actions == 2
num_features == 2
GammaNum == 1
GammaDen == 2

states == 0 .. (num_states - 1)
actions == 0 .. (num_actions - 1)
features == 0 .. (num_features - 1)
SA == num_states * num_actions
Flat == 0 .. (SA - 1)

-----------------------------------------------------------------------------
(* Arithmetic helpers.                                                     *)

RECURSIVE Pow(_, _)
Pow(b, e) == IF e = 0 THEN 1 ELSE b * Pow(b, e - 1)

RECURSIVE Gcd(_, _)
Gcd(x, y) == IF y = 0 THEN x ELSE Gcd(y, x % y)

RECURSIVE LcmUpTo(_)
LcmUpTo(n) == IF n <= 1 THEN 1 ELSE LET l == LcmUpTo(n - 1) IN (l * n) \div Gcd(l, n)

Abs(x) == IF x < 0 THEN -x ELSE x

SetMax(S) == CHOOSE x \in S : \A y \in S : y <= x
SetMin(S) == CHOOSE x \in S : \A y \in S : x <= y

RECURSIVE SumFrom(_, _, _)
\* f[lo] + ... + f[hi]
SumFrom(f, lo, hi) == IF lo > hi THEN 0 ELSE f[lo] + SumFrom(f, lo + 1, hi)

\* np.sum of a list or vector indexed lo .. hi (its DOMAIN)
SumOver(f, dom) == IF dom = {} THEN 0 ELSE SumFrom(f, SetMin(dom), SetMax(dom))

\* the occupancy grid has GridDen points per unit
GridDen == GammaDen * GammaDen
\* the fixed-point unit: every gamma^t / len(D) and every half of a grid step is whole
One == 2 * GridDen * Pow(GammaDen, MaxPairs) * LcmUpTo(MaxPairs)
GridStep == One \div GridDen

\* index of (s, a) in a vector flattened with order="F"
Idx(s, a) == a * num_states + s
StateOf(j) == j % num_states
ActionOf(j) == j \div num_states

\* a faulty variant: the reshape without order="F" (row-major)
ReshapeC(v) == [s \in states |-> [a \in actions |-> v[s * num_actions + a]]]

\* v.reshape((S, A), order="F")
ReshapeF(v) == [s \in states |-> [a \in actions |-> v[Idx(s, a)]]]
\* m.reshape(S * A, order="F")
FlattenF(m) == [j \in Flat |-> m[StateOf(j)][ActionOf(j)]]

-----------------------------------------------------------------------------
(* Demonstrations.                                                         *)

Pairs == states \X actions

\* trajectories of exactly h pairs
TrajsOf(h) == [1 .. h -> Pairs]

\* itertools.chain.from_iterable(D) turned into a set
D_flatOf(D) == UNION {{D[i][t] : t \in 1 .. Len(D[i])} : i \in 1 .. Len(D)}

\* every iteration order of the finite set S (Python fixes no order for a set)
Orders(S) ==
    {q \in [1 .. Cardinality(S) -> S] : \A i, j \in 1 .. Cardinality(S) : q[i] = q[j] => i = j}

RECURSIVE DemosOf(_)
\* lists of non-empty trajectories holding n pairs in all
DemosOf(n) ==
    IF n = 0 THEN {<<>>}
    ELSE UNION {{<<d>> \o rest : d \in TrajsOf(h), rest \in DemosOf(n - h)} : h \in 1 .. n}

\* demonstration sets: at least one trajectory, at most MaxPairs pairs
Demos == UNION {DemosOf(n) : n \in 1 .. MaxPairs}

-----------------------------------------------------------------------------
(* Pure functions of the class.                                            *)

RECURSIVE observed(_, _, _)
\* MDP.observed: D is given in the order the loop "for s, a in D" visits it,
\* i is the position the loop is at
observed(state, D, i) ==
    IF i > Len(D) THEN <<FALSE, -1>>
    ELSE IF state = D[i][1] THEN <<TRUE, D[i][2]>>
    ELSE observed(state, D, i + 1)

\* MDP.construct_constraint_vector, D in iteration order
construct_constraint_vector(D) ==
    FlattenF([state \in states |-> [action \in actions |->
        LET o == observed(state, D, 1)
        IN  IF o[1] /\ action # o[2] THEN 1 ELSE 0]])

\* gamma ** t, in units of 1/One
GammaPow(t) == (One * Pow(GammaNum, t)) \div Pow(GammaDen, t)

RECURSIVE AccumulateTraj(_, _, _)
\* the inner loop of u_hat_all: u_hat[s,a] += gamma**t for t = 0 .. len(d)-1;
\* k is the 1-based position, so t = k - 1
AccumulateTraj(u_hat, d, k) ==
    IF k > Len(d) THEN u_hat
    ELSE LET s == d[k][1]
             a == d[k][2]
         IN  AccumulateTraj(
                 [u_hat EXCEPT ![s][a] = @ + GammaPow(k - 1)], d, k + 1)

RECURSIVE AccumulateAll(_, _, _)
\* the outer loop of u_hat_all over the trajectories of D
AccumulateAll(u_hat, D, i) ==
    IF i > Len(D) THEN u_hat
    ELSE AccumulateAll(AccumulateTraj(u_hat, D[i], 1), D, i + 1)

ZeroMatrix == [s \in states |-> [a \in actions |-> 0]]

\* faulty variant: divides by the number of pairs instead of the number of trajectories
u_hat_all_per_pair(D) ==
    LET acc == AccumulateAll(ZeroMatrix, D, 1)
        n == SumOver([i \in 1 .. Len(D) |-> Len(D[i])], 1 .. Len(D))
    IN  [s \in states |-> [a \in actions |-> acc[s][a] \div n]]

\* MDP.u_hat_all
u_hat_all(D) ==
    LET acc == AccumulateAll(ZeroMatrix, D, 1)
    IN  [s \in states |-> [a \in actions |-> acc[s][a] \div Len(D)]]

\* 1.0e-10 in units of 1/One, rounded down: for whole x, x/One > 1e-10 iff x > this
Tiny == (One \div 100000) \div 100000

\* np.argmax: the first index of the largest entry
ArgMax(row) == SetMin({a \in DOMAIN row : \A b \in DOMAIN row : row[b] <= row[a]})

RowSum(m, s) == SumOver(m[s], actions)

\* faulty variant: the fallback row is the raw random vector, not normalised
occupancy_freq_to_policy_raw(u, force_deterministic, rand) ==
    [s \in states |-> [a \in actions |->
        IF force_deterministic
        THEN (IF a = ArgMax(u[s]) THEN <<1, 1>> ELSE <<0, 1>>)
        ELSE IF RowSum(u, s) > Tiny
             THEN <<u[s][a], RowSum(u, s)>>
             ELSE <<rand[s][a], 1>>]]

\* MDP.occupancy_freq_to_policy.  A policy entry is the exact fraction
\* <<numerator, denominator>>; rand[s] is the vector np.random.rand(A) drawn
\* for state s.
occupancy_freq_to_policy(u, force_deterministic, rand) ==
    [s \in states |-> [a \in actions |->
        IF force_deterministic
        THEN (IF a = ArgMax(u[s]) THEN <<1, 1>> ELSE <<0, 1>>)
        ELSE IF RowSum(u, s) > Tiny
             THEN <<u[s][a], RowSum(u, s)>>
             ELSE <<rand[s][a], RowSum(rand, s)>>]]

-----------------------------------------------------------------------------
(* Constructor arguments drawn per run.                                    *)

\* a Python list or array, indexed from 0
FromSeq(q) == [i \in 0 .. (Len(q) - 1) |-> q[i + 1]]

\* a transition tensor P[s][s2][a] with entries 0/1, from a successor table;
\* a successor of -1 gives the all-zero row, which does not sum to 1
KernelOf(nxt) ==
    [s \in states |-> [s2 \in states |-> [a \in actions |->
        IF nxt[s + 1][a + 1] = s2 THEN 1 ELSE 0]]]

\* state 1 absorbing; in state 0 action 0 stays and action 1 moves to state 1
KernelMove == KernelOf(<< <<0, 1>>, <<1, 1>> >>)
\* both states absorbing under both actions
KernelStay == KernelOf(<< <<0, 0>>, <<1, 1>> >>)
\* as KernelMove, but the row P[0,:,0] is all zero
KernelLeak == KernelOf(<< <<-1, 1>>, <<1, 1>> >>)

KernelInputs == {KernelMove, KernelStay, KernelLeak}

\* p_0, in units of 1/One
P0Start == FromSeq(<<One, 0>>)
P0Even == FromSeq(<<One \div 2, One \div 2>>)
\* sums to 1/2
P0Short == FromSeq(<<One \div 2, 0>>)
\* sums to 5/4
P0Long == FromSeq(<<One \div 2, (3 * One) \div 4>>)

P0Inputs == {P0Start, P0Even, P0Short, P0Long}

\* phi[j][k], rows in order="F" (j = a*S + s): feature 0 marks action 1 in
\* state 0, feature 1 marks state 1
PhiMarks ==
    FromSeq(<< FromSeq(<<0, 0>>), FromSeq(<<0, 1>>), FromSeq(<<1, 0>>), FromSeq(<<0, 1>>) >>)
\* feature 0 marks action 0 in state 0, feature 1 tells the actions of state 1 apart
PhiSigned ==
    FromSeq(<< FromSeq(<<1, 0>>), FromSeq(<<0, 1>>), FromSeq(<<0, 0>>), FromSeq(<<0, -1>>) >>)

\* reward[j], in order="F": action 1 in state 0 pays, action 1 in state 1 costs
RewardMove == FromSeq(<<0, 0, 2, -1>>)
\* the two actions of state 0 pay the same: the optimal policy is not unique
RewardTie == FromSeq(<<1, 0, 1, -1>>)

Mdp(P, p_0, phi, reward) == [P |-> P, p_0 |-> p_0, phi |-> phi, reward |-> reward]

\* the constructor arguments of the runs; the last three are malformed (a row
\* of P, or p_0, does not sum to 1) and the constructor takes them as they are
MdpInputs ==
    { Mdp(KernelMove, P0Start, PhiMarks, RewardMove),
      Mdp(KernelMove, P0Even, PhiSigned, RewardMove),
      Mdp(KernelStay, P0Even, PhiMarks, RewardTie),
      Mdp(KernelLeak, P0Start, PhiMarks, RewardMove),
      Mdp(KernelMove, P0Short, PhiMarks, RewardMove),
      Mdp(KernelMove, P0Long, PhiMarks, RewardMove) }

-----------------------------------------------------------------------------
(* The Bellman-flow design matrix and the LP solver.                       *)

\* MDP.construct_design_matrix: (I - gamma P_a) stacked over the actions,
\* an (SA x S) matrix, here multiplied by GammaDen to stay whole
construct_design_matrix(P) ==
    [j \in Flat |-> [s2 \in states |->
        GammaDen * (IF StateOf(j) = s2 THEN 1 ELSE 0)
            - GammaNum * P[StateOf(j)][s2][ActionOf(j)]]]

\* 1 / (1 - gamma), in units of 1/One
TotalMass == (One * GammaDen) \div (GammaDen - GammaNum)

\* np.sum of a vector over the flattened (s, a)
SumFlat(x) == SumFrom(x, 0, SA - 1)

\* the values an LP variable u[j] with lb = 0 can take: the grid points up to
\* sum(p_0) / (1 - gamma), which W.T @ u == p_0 and u >= 0 allow no entry to
\* exceed when no row of P sums to more than 1
GridValues(p_0) ==
    {k * GridStep : k \in 0 .. ((SumOver(p_0, states) * TotalMass) \div (One * GridStep))}

\* W.T @ u == p_0 (addMConstr), W being GammaDen times the design matrix
BellmanFlow(W, p_0, u) ==
    \A s2 \in states : SumFlat([j \in Flat |-> W[j][s2] * u[j]]) = GammaDen * p_0[s2]

\* the points u >= 0 of the grid with W.T @ u == p_0, for every (P, p_0) of
\* the inputs, each set enumerated once
FlowPoints ==
    [P \in KernelInputs, p_0 \in P0Inputs |->
        LET W == construct_design_matrix(P)
        IN  {x : x \in {u \in [Flat -> GridValues(p_0)] : BellmanFlow(W, p_0, u)}}]

Support(u) == {j \in DOMAIN u : u[j] > 0}

Dot(x, y) == SumFlat([j \in Flat |-> x[j] * y[j]])

\* model.Status after model.optimize() on an LP whose feasible points are F:
\* infeasible when there are none; otherwise optimal, unless the solver ends
\* in trouble (a limit, numerical difficulty), which the caller cannot rule out
Status(F, trouble) ==
    IF F = {} THEN "INFEASIBLE" ELSE IF trouble THEN "SUBOPTIMAL" ELSE "OPTIMAL"

\* the points of F where the objective, tabulated as val, is largest
Maximizers(F, val) ==
    UNION {{x \in F : val[x] = best} : best \in {SetMax({val[x] : x \in F})}}
\* the points of F where the objective, tabulated as val, is smallest
Minimizers(F, val) ==
    UNION {{x \in F : val[x] = best} : best \in {SetMin({val[x] : x \in F})}}

\* x is a vertex of the polytope whose grid points are F: no other point of F
\* lives on the support of x (the simplex method returns such a point)
Basic(F, x) == ~ \E y \in F : y # x /\ Support(y) \subseteq Support(x)

\* the check "np.sum(u_flat) - (1 / (1 - gamma)) < 10**-2"
MassAssert(u_flat) == 100 * (SumFlat(u_flat) - TotalMass) < One

\* a faulty variant: the comparison of the loop turned round
ClampPositive(u_flat) == [i \in Flat |-> IF u_flat[i] > 0 THEN 0 ELSE u_flat[i]]

\* the loop "if u_flat[i] < 0: u_flat[i] = 0.0"
Clamp(u_flat) == [i \in Flat |-> IF u_flat[i] < 0 THEN 0 ELSE u_flat[i]]

Raised(error, lps) == [raised |-> TRUE, error |-> error, lps |-> lps]
Returned(ret, lps) == [raised |-> FALSE, ret |-> ret, lps |-> lps]

\* MDP.solve_putterman_dual_LP_for_Opt_policy: every outcome the call can have
solve_putterman_dual_LP_for_Opt_policy(m, trouble) ==
    LET F == FlowPoints[m.P, m.p_0]
        st == Status(F, trouble)
        obj(u) == Dot(m.reward, u)
    IN  IF st # "OPTIMAL" THEN {Raised("ValueError", <<st>>)}
        ELSE { LET u_flat == Clamp(u)
               IN  IF ~ MassAssert(u_flat) THEN Raised("AssertionError", <<st>>)
                   ELSE Returned(<<ReshapeF(u_flat), obj(u)>>, <<st>>)
               : u \in {x \in Maximizers(F, [x \in F |-> obj(x)]) : Basic(F, x)} }

\* MDP.solve_worst: every outcome the call can have
solve_worst(m, trouble) ==
    LET F == FlowPoints[m.P, m.p_0]
        st == Status(F, trouble)
        obj(u) == Dot(m.reward, u)
    IN  IF st # "OPTIMAL" THEN {Raised("ValueError", <<st>>)}
        ELSE { Returned(<<ReshapeF(u), obj(u)>>, <<st>>)
               : u \in {x \in Minimizers(F, [x \in F |-> obj(x)]) : Basic(F, x)} }

\* force_deterministic=True draws no random vector
NoRand == [s \in states |-> [a \in actions |-> 0]]

\* MDP.__init__: every Model the constructor can leave behind; trouble is the
\* ordinal of the LP the solver fails on (0: none).  An exception leaves no
\* object: status "error".
Construct(m, trouble) ==
    UNION {
        IF o1.raised
        THEN {[status |-> "error", error |-> o1.error, lps |-> o1.lps]}
        ELSE { IF o2.raised
               THEN [status |-> "error", error |-> o2.error, lps |-> o1.lps \o o2.lps]
               ELSE [status |-> "ok",
                     reward_matrix |-> ReshapeF(m.reward),
                     phi_matrix |-> [s \in states |-> [a \in actions |-> [k \in features |->
                                       ReshapeF([j \in Flat |-> m.phi[j][k]])[s][a]]]],
                     IGammaPAStacked |-> construct_design_matrix(m.P),
                     u_E |-> o1.ret[1],
                     u_E_flat |-> FlattenF(o1.ret[1]),
                     opt_policy |-> occupancy_freq_to_policy(o1.ret[1], TRUE, NoRand),
                     opt_return |-> o1.ret[2],
                     worst_u |-> o2.ret[1],
                     worst_return |-> o2.ret[2],
                     lps |-> o1.lps \o o2.lps]
               : o2 \in solve_worst(m, trouble = 2) }
        : o1 \in solve_putterman_dual_LP_for_Opt_policy(m, trouble = 1) }

\* x <= y for two fractions with positive denominators
FracLeq(x, y) == x[1] * y[2] <= y[1] * x[2]

\* faulty variant: np.argmin where the code has np.argmax
generate_all_expert_demonstrations_argmin(mo) ==
    [i \in 1 .. num_states |->
        LET s == i - 1
            row == mo.opt_policy[s]
        IN  <<s, SetMin({a \in actions : \A b \in actions : FracLeq(row[a], row[b])})>>]

\* MDP.generate_all_expert_demonstrations: the list of (s, argmax opt_policy[s, :])
generate_all_expert_demonstrations(mo) ==
    [i \in 1 .. num_states |->
        LET s == i - 1
            row == mo.opt_policy[s]
        IN  <<s, SetMin({a \in actions : \A b \in actions : FracLeq(row[b], row[a])})>>]

-----------------------------------------------------------------------------
(* The robust estimation module.                                           *)

\* an optional argument: <<>> is None, <<x>> is the number x
None == <<>>
Some(x) == <<x>>
\* Python truthiness of an optional number: None and 0 are falsy
Truthy(opt) == opt # None /\ opt[1] # 0

\* the product of two fixed-point numbers
FMul(x, y) == (x * y) \div One

\* (u @ phi)[k]
Feature(u, phi, k) == SumFlat([j \in Flat |-> u[j] * phi[j][k]])

\* u @ phi, a vector over the features
Features(u, phi) == [k \in features |-> Feature(u, phi, k)]

\* u @ phi @ w for a direction w in units of 1/One
Project(u, phi, w) ==
    SumFrom([k \in features |-> FMul(Feature(u, phi, k), w[k])], 0, num_features - 1)

\* the 2K extreme points of the L1 ball: row i is +e_i, row i+k is -e_i
UnitDirections ==
    [i \in 0 .. (2 * num_features - 1) |-> [k \in features |->
        IF i = k THEN One ELSE IF i = k + num_features THEN -One ELSE 0]]

\* np.linalg.norm(x, ord=np.inf) of a vector over the features
NormInf(x) == SetMax({Abs(x[k]) : k \in features})

\* c @ v == 0
InUpsilon(c, v) == Dot(c, v) = 0

\* the L-infinity constraints "v @ phi - u_e_hat @ phi <= eps" and its mirror
LinfOK(v, u_e_hat, phi, eps) ==
    \A k \in features :
        /\ Feature(v, phi, k) - Feature(u_e_hat, phi, k) <= eps
        /\ Feature(u_e_hat, phi, k) - Feature(v, phi, k) <= eps

RECURSIVE InnerLoopNoCheck(_, _, _, _, _, _, _)
\* faulty variant: the status of an inner LP is not looked at, the loop goes on
InnerLoopNoCheck(V, phi, w_i_mat, skip, trouble, i, acc) ==
    IF i > SetMax(DOMAIN w_i_mat) THEN acc
    ELSE IF i \in skip
    THEN InnerLoopNoCheck(V, phi, w_i_mat, skip, trouble, i + 1,
                   [acc EXCEPT !.max_v_r_i = @ @@ (i :> None)])
    ELSE LET st == Status(V, trouble = Len(acc.lps) + 1)
             best == IF V = {} THEN 0
                     ELSE SetMax({Project(v, phi, w_i_mat[i]) : v \in V})
         IN  InnerLoopNoCheck(V, phi, w_i_mat, skip, trouble, i + 1,
                       [acc EXCEPT !.lps = Append(@, st),
                                   !.max_v_r_i = @ @@ (i :> Some(best))])

RECURSIVE InnerLoop(_, _, _, _, _, _, _)
\* the loop "for i in range(0, sampled_points)" over the inner-maximization
\* LPs, from direction i on: V are the feasible points of the inner model,
\* skip the pruned directions (they get -inf, here None, and no LP), trouble
\* the ordinal of the optimize() call the solver fails on.  acc holds
\* max_v_r_i, the statuses of the LPs solved so far and whether it raised.
InnerLoop(V, phi, w_i_mat, skip, trouble, i, acc) ==
    IF i > SetMax(DOMAIN w_i_mat) THEN acc
    ELSE IF i \in skip
    THEN InnerLoop(V, phi, w_i_mat, skip, trouble, i + 1,
                   [acc EXCEPT !.max_v_r_i = @ @@ (i :> None)])
    ELSE LET st == Status(V, trouble = Len(acc.lps) + 1)
         IN  IF st # "OPTIMAL"
             THEN [acc EXCEPT !.lps = Append(@, st), !.raised = TRUE]
             ELSE InnerLoop(V, phi, w_i_mat, skip, trouble, i + 1,
                       [acc EXCEPT !.lps = Append(@, st),
                                   !.max_v_r_i = @ @@ (i :>
                                       Some(SetMax({Project(v, phi, w_i_mat[i]) : v \in V})))])

LoopStart == [max_v_r_i |-> <<>>, lps |-> <<>>, raised |-> FALSE]

\* the smallest sigma >= 0 with "-u @ phi @ w_i_mat.T + max_v_r_i <= sigma";
\* a direction whose max_v_r_i is -inf bounds nothing
Sigma(u, phi, w_i_mat, max_v_r_i) ==
    SetMax({0} \cup {max_v_r_i[i][1] - Project(u, phi, w_i_mat[i])
                     : i \in {x \in DOMAIN w_i_mat : max_v_r_i[x] # None}})

\* MDP.worst_case_regret(D, u), u flattened with order="F"; D_flat is
\* set(itertools.chain.from_iterable(D)) in its iteration order
worst_case_regret(m, mo, D, D_flat, u, trouble) ==
    LET c == construct_constraint_vector(D_flat)
        V == {v \in FlowPoints[m.P, m.p_0] : InUpsilon(c, v)}
        w_i_mat == UnitDirections
        loop == InnerLoop(V, m.phi, w_i_mat, {}, trouble, 0, LoopStart)
    IN  IF loop.raised THEN Raised("ValueError", loop.lps)
        ELSE Returned(
                 SetMax({loop.max_v_r_i[i][1] - Project(u, m.phi, w_i_mat[i])
                         : i \in DOMAIN w_i_mat}),
                 loop.lps)

\* directions drawn when pruning (the code draws 100; the model fewer)
SampledPoints == 2

\* np.linalg.norm(w, ord=1)
Norm1(w) == SumOver([k \in features |-> Abs(w[k])], features)

\* the vectors "np.random.rand(k) * 2 - 1" the model draws: one on the L1
\* sphere and one outside the ball
Draws ==
    { FromSeq(<<-(One \div 2), One \div 2>>), FromSeq(<<-One, One \div 2>>) }

\* the sampling of one direction: w0 is the first draw; while its L1 norm
\* exceeds 1 a new draw is taken in absolute value, w1 being the one that
\* ends the loop; the result is divided by its L1 norm
SampleDirection(w0, w1) ==
    LET w == IF Norm1(w0) > One THEN [k \in features |-> Abs(w1[k])] ELSE w0
    IN  [k \in features |-> (w[k] * One) \div Norm1(w)]

\* the pairs of draws that end the sampling loop of one direction
DrawPairs ==
    {d \in Draws \X Draws :
        Norm1(d[1]) > One => Norm1([k \in features |-> Abs(d[2][k])]) <= One}

\* the matrices w_i_mat the sampling can produce
SampledMatrices ==
    [0 .. (SampledPoints - 1) -> {SampleDirection(d[1], d[2]) : d \in DrawPairs}]

\* the r-th smallest (r from 0) of the values x[i]
Kth(x, r) ==
    CHOOSE y \in {x[i] : i \in DOMAIN x} :
        /\ Cardinality({i \in DOMAIN x : x[i] < y}) <= r
        /\ Cardinality({i \in DOMAIN x : x[i] <= y}) > r

\* 10 * np.quantile(x, 0.9), by numpy's linear interpolation between the
\* order statistics around position 0.9 * (n - 1)
Quantile90x10(x) ==
    LET n == Cardinality(DOMAIN x)
        lo == (9 * (n - 1)) \div 10
        fr == (9 * (n - 1)) % 10
        hi == IF lo + 1 < n THEN lo + 1 ELSE lo
    IN  10 * Kth(x, lo) + fr * (Kth(x, hi) - Kth(x, lo))

\* faulty variant: a direction whose score equals the threshold is skipped too
PrunedAtThreshold(u_e_hat, phi, w_i_mat) ==
    LET score == [i \in DOMAIN w_i_mat |-> Project(u_e_hat, phi, w_i_mat[i])]
    IN  {i \in DOMAIN w_i_mat : 10 * score[i] <= Quantile90x10(score)}

\* the directions the pruning skips: "(u_e_hat @ phi @ w_i_mat[i]) < threshold"
Pruned(u_e_hat, phi, w_i_mat) ==
    LET score == [i \in DOMAIN w_i_mat |-> Project(u_e_hat, phi, w_i_mat[i])]
    IN  {i \in DOMAIN w_i_mat : 10 * score[i] < Quantile90x10(score)}

\* "eps = passed_eps if passed_eps else (...)"
ChooseEps(passed_eps, default) == IF Truthy(passed_eps) THEN passed_eps[1] ELSE default

\* faulty variant: the outer LP without "c @ u == 0"
OuterFeasibleAll(F, c) == F

\* the feasible u of the outer minimization: W.T @ u == p_0, c @ u == 0, u >= 0
OuterFeasible(F, c) == {u \in F : InUpsilon(c, u)}

\* faulty variant: the inner model takes the L-infinity constraints whatever the flag
InnerFeasibleLinf(F, c, u_e_hat, phi, eps, add_lin_constr, add_linf_constr) ==
    {v \in F : /\ add_lin_constr => InUpsilon(c, v)
               /\ LinfOK(v, u_e_hat, phi, eps)}

\* the feasible v of the inner maximization
InnerFeasible(F, c, u_e_hat, phi, eps, add_lin_constr, add_linf_constr) ==
    {v \in F : /\ add_lin_constr => InUpsilon(c, v)
               /\ add_linf_constr => LinfOK(v, u_e_hat, phi, eps)}

\* the end of solve_cheb_part_2, from the outer minimization on: loop is what
\* the loop over the inner LPs left, U the feasible u of the outer model
OuterOutcomes(m, U, w_i_mat, loop, eps, trouble) ==
    LET st == Status(U, trouble = Len(loop.lps) + 1)
        sigma(u) == Sigma(u, m.phi, w_i_mat, loop.max_v_r_i)
    IN  IF loop.raised THEN {Raised("ValueError", loop.lps)}
        ELSE IF st # "OPTIMAL" THEN {Raised("ValueError", Append(loop.lps, st))}
        ELSE { IF ~ MassAssert(u_flat) THEN Raised("AssertionError", Append(loop.lps, st))
               ELSE Returned(<<eps, ReshapeF(u_flat), sigma(u_flat), Dot(u_flat, m.reward)>>,
                             Append(loop.lps, st))
               : u_flat \in Minimizers(U, [x \in U |-> sigma(x)]) }

\* the loop over the inner LPs and the outer LP of solve_cheb_part_2, with the
\* values computed before the loop: pre = <<c, u_e_hat, eps, skip>>
ChebPart2Outcomes(m, pre, add_lin_constr, add_linf_constr, w_i_mat, trouble) ==
    LET F == FlowPoints[m.P, m.p_0]
    IN  UNION { OuterOutcomes(m, OuterFeasible(F, pre[1]), w_i_mat, loop, pre[3], trouble)
                : loop \in { InnerLoop(
                      InnerFeasible(F, pre[1], pre[2], m.phi, pre[3],
                                    add_lin_constr, add_linf_constr),
                      m.phi, w_i_mat, pre[4], trouble, 0, LoopStart) } }

\* a faulty variant: the sampled directions are used whenever there are any,
\* pruning or not
solve_cheb_part_2_sampling(m, mo, D, D_flat, add_lin_constr, add_linf_constr, passed_eps, prune, w_sampled, trouble) ==
    LET phi == m.phi
        c == construct_constraint_vector(D_flat)
        u_e_hat == FlattenF(u_hat_all(D))
        w_i_mat == IF w_sampled # <<>> THEN w_sampled ELSE UnitDirections
        skip == IF prune THEN Pruned(u_e_hat, phi, w_i_mat) ELSE {}
        default == NormInf([k \in features |->
                       Feature(mo.u_E_flat, phi, k) - Feature(u_e_hat, phi, k)]) + One
        eps == ChooseEps(passed_eps, default)
    IN  UNION { ChebPart2Outcomes(m, pre, add_lin_constr, add_linf_constr, w_i_mat, trouble)
                : pre \in { <<c, u_e_hat, eps, skip>> } }

\* MDP.solve_cheb_part_2: every outcome the call can have.  mo is the Model,
\* w_sampled the matrix the sampling produced (read only when prune).
solve_cheb_part_2(m, mo, D, D_flat, add_lin_constr, add_linf_constr, passed_eps, prune, w_sampled, trouble) ==
    LET phi == m.phi
        c == construct_constraint_vector(D_flat)
        u_e_hat == FlattenF(u_hat_all(D))
        w_i_mat == IF prune THEN w_sampled ELSE UnitDirections
        skip == IF prune THEN Pruned(u_e_hat, phi, w_i_mat) ELSE {}
        default == NormInf([k \in features |->
                       Feature(mo.u_E_flat, phi, k) - Feature(u_e_hat, phi, k)]) + One
        eps == ChooseEps(passed_eps, default)
    IN  UNION { ChebPart2Outcomes(m, pre, add_lin_constr, add_linf_constr, w_i_mat, trouble)
                : pre \in { <<c, u_e_hat, eps, skip>> } }

\* MDP.solve_syed with u_e_hat=None: every outcome the call can have
solve_syed(m, D, D_flat, add_lin_constr, trouble) ==
    LET phi == m.phi
        V_hat == Features(FlattenF(u_hat_all(D)), phi)
        F == FlowPoints[m.P, m.p_0]
        U == IF add_lin_constr
             THEN OuterFeasible(F, construct_constraint_vector(D_flat))
             ELSE F
        B(u) == SetMax({0} \cup {Abs(Features(u, phi)[k] - V_hat[k]) : k \in features})
        st == Status(U, trouble = 1)
    IN  IF st # "OPTIMAL" THEN {Raised("ValueError", <<st>>)}
        ELSE { Returned(<<ReshapeF(u_flat), B(u_flat), Dot(u_flat, m.reward)>>, <<st>>)
               : u_flat \in Minimizers(U, [x \in U |-> B(x)]) }

\* the free variables beta, betaHat (lb = -inf, ub = inf) range over the
\* half-integers of magnitude up to MaxDual, alpha and alphaHat over the
\* integers up to twice that
MaxDual == 2
BetaValues == {k * (One \div 2) : k \in (-2 * MaxDual) .. (2 * MaxDual)}
AlphaValues == {k * One : k \in (-2 * MaxDual) .. (2 * MaxDual)}

\* the smallest whole q with q * One >= x
CeilOne(x) == -((-x) \div One)

\* the constraint "phi[:, i] <= alpha[i] * c + (W @ beta[:, i])", or with
\* sign = -1 its mirror "-1 * phi[:, i] <= alphaHat[i] * c + (W @ betaHat[:, i])",
\* W being GammaDen times the design matrix
DualOK(W, c, phi, i, sign, alpha, beta) ==
    \A j \in Flat :
        GammaDen * One * sign * phi[j][i]
            <= GammaDen * alpha * c[j] + SumOver([s2 \in states |-> W[j][s2] * beta[s2]], states)

\* the values "p_0 @ beta[:, i]" (times One) the feasible (alpha[i], beta[:, i]) give
DualCosts(W, c, phi, p_0, i, sign) ==
    {SumOver([s \in states |-> p_0[s] * beta[s]], states) : beta \in {b \in [states -> BetaValues] :
                                   \E alpha \in AlphaValues : DualOK(W, c, phi, i, sign, alpha, b)}}

\* the smallest sigma >= 0 for which some (beta, betaHat) satisfies
\* "p_0 @ beta[:, i] <= sigma + phi[:, i] @ u" and
\* "p_0 @ betaHat[:, i] <= sigma - phi[:, i] @ u" for every feature i
CenterSigma(u, phi, cost, costHat) ==
    SetMax({0} \cup {CeilOne(SetMin(cost[i]) - One * Features(u, phi)[i]) : i \in features}
               \cup {CeilOne(SetMin(costHat[i]) + One * Features(u, phi)[i]) : i \in features})

\* the end of solve_chebyshev_center, from model.optimize() on: U are the
\* feasible u, cost and costHat the dual values computed once
CenterOutcomes(m, U, cost, costHat, trouble) ==
    LET st == Status(U, trouble = 1)
        sigma(u) == CenterSigma(u, m.phi, cost, costHat)
    IN  IF st # "OPTIMAL" THEN {Raised("ValueError", <<st>>)}
        ELSE { Returned(<<ReshapeF(u_flat), sigma(u_flat), Dot(u_flat, m.reward)>>, <<st>>)
               : u_flat \in Minimizers(U, [x \in U |-> sigma(x)]) }

\* MDP.solve_chebyshev_center: every outcome the call can have
solve_chebyshev_center(m, D, D_flat, trouble) ==
    LET phi == m.phi
        c == construct_constraint_vector(D_flat)
        W == construct_design_matrix(m.P)
        U == OuterFeasible(FlowPoints[m.P, m.p_0], c)
    IN  UNION { CenterOutcomes(m,
                    IF \E i \in features : d[1][i] = {} \/ d[2][i] = {} THEN {} ELSE U,
                    d[1], d[2], trouble)
                : d \in { << [i \in features |-> DualCosts(W, c, phi, m.p_0, i, 1)],
                             [i \in features |-> DualCosts(W, c, phi, m.p_0, i, -1)] >> } }

-----------------------------------------------------------------------------
(* The state machine.                                                      *)

NoCall == [op |-> "none"]

\* the demonstration sets the solvers are called with
DemoInputs ==
    { << << <<0, 0>> >> >>,
      << << <<0, 1>>, <<1, 0>> >> >>,
      << << <<0, 0>>, <<0, 1>> >> >>,
      << << <<0, 0>> >>, << <<1, 1>> >> >>,
      << << <<0, 1>>, <<1, 1>> >>, << <<1, 0>> >> >> }

\* the demonstration sets the solvers are called with when the solver may fail
FewDemoInputs ==
    { << << <<0, 1>>, <<1, 0>> >> >>,
      << << <<0, 0>>, <<0, 1>> >> >> }

\* the values of passed_eps the solvers are called with
EpsInputs == {None, Some(0), Some(One \div 2)}

Init ==
    /\ mdp \in MdpInputs
    /\ model = [status |-> "new"]
    /\ call = NoCall

\* MDP(num_states, num_actions, num_features, P, phi, p_0, gamma, reward)
NewMDP ==
    /\ model.status = "new"
    /\ \E trouble \in 0 .. 2 : model' \in Construct(mdp, trouble)
    /\ UNCHANGED <<mdp, call>>

\* mdp.solve_chebyshev_center(D), D from Ds, the solver failing at an LP of Troubles
CallChebyshevCenter(Ds, Troubles) ==
    /\ model.status = "ok"
    /\ call = NoCall
    /\ \E D \in Ds : \E D_flat \in Orders(D_flatOf(D)) : \E trouble \in Troubles \cap 0 .. 1 :
       \E out \in solve_chebyshev_center(mdp, D, D_flat, trouble) :
           call' = [op |-> "solve_chebyshev_center", D |-> D, D_flat |-> D_flat, out |-> out]
    /\ UNCHANGED <<mdp, model>>

\* mdp.solve_cheb_part_2(D, add_lin_constr, add_linf_constr, passed_eps, prune)
CallChebPart2(Ds, Troubles) ==
    /\ model.status = "ok"
    /\ call = NoCall
    /\ \E D \in Ds : \E D_flat \in Orders(D_flatOf(D)) :
       \E add_lin_constr, add_linf_constr, prune \in BOOLEAN :
       \E passed_eps \in EpsInputs :
       \E w_sampled \in (IF prune THEN SampledMatrices ELSE {<<>>}) :
       \E trouble \in Troubles :
       \E out \in solve_cheb_part_2(mdp, model, D, D_flat, add_lin_constr, add_linf_constr,
                                    passed_eps, prune, w_sampled, trouble) :
           call' = [op |-> "solve_cheb_part_2", D |-> D, D_flat |-> D_flat,
                    add_lin_constr |-> add_lin_constr, add_linf_constr |-> add_linf_constr,
                    passed_eps |-> passed_eps, prune |-> prune, w_sampled |-> w_sampled,
                    out |-> out]
    /\ UNCHANGED <<mdp, model>>

\* mdp.solve_syed(D, episodes, horizon, None, add_lin_constr)
CallSyed(Ds, Troubles) ==
    /\ model.status = "ok"
    /\ call = NoCall
    /\ \E D \in Ds : \E D_flat \in Orders(D_flatOf(D)) :
       \E add_lin_constr \in BOOLEAN : \E trouble \in Troubles \cap 0 .. 1 :
       \E out \in solve_syed(mdp, D, D_flat, add_lin_constr, trouble) :
           call' = [op |-> "solve_syed", D |-> D, D_flat |-> D_flat,
                    add_lin_constr |-> add_lin_constr, out |-> out]
    /\ UNCHANGED <<mdp, model>>

\* the position of u in the tuple a Chebyshev solver returns
UIndex(op) == IF op = "solve_cheb_part_2" THEN 2 ELSE 1

\* mdp.worst_case_regret(D, u) on the D and the u of the Chebyshev call just
\* returned; of keeps that call
CallWorstCaseRegret(Troubles) ==
    /\ model.status = "ok"
    /\ call.op \in {"solve_chebyshev_center", "solve_cheb_part_2"}
    /\ ~ call.out.raised
    /\ \E trouble \in Troubles \cap 0 .. (2 * num_features) :
           LET u == FlattenF(call.out.ret[UIndex(call.op)])
           IN  call' = [op |-> "worst_case_regret", D |-> call.D, D_flat |-> call.D_flat,
                        u |-> u, of |-> call,
                        out |-> worst_case_regret(mdp, model, call.D, call.D_flat, u, trouble)]
    /\ UNCHANGED <<mdp, model>>

\* mdp.generate_all_expert_demonstrations()
CallGenerateAllExpertDemonstrations ==
    /\ model.status = "ok"
    /\ call = NoCall
    /\ call' = [op |-> "generate_all_expert_demonstrations",
                out |-> Returned(generate_all_expert_demonstrations(model), <<>>)]
    /\ UNCHANGED <<mdp, model>>

\* mdp.construct_constraint_vector(set(itertools.chain.from_iterable(D))), the
\* set being iterated in the order D_flat
CallConstructConstraintVector ==
    /\ model.status = "ok"
    /\ call = NoCall
    /\ \E D \in Demos : \E D_flat \in Orders(D_flatOf(D)) :
           call' = [op |-> "construct_constraint_vector", D |-> D, D_flat |-> D_flat,
                    out |-> Returned(construct_constraint_vector(D_flat), <<>>)]
    /\ UNCHANGED <<mdp, model>>

\* mdp.u_hat_all(D)
CallUHatAll ==
    /\ model.status = "ok"
    /\ call = NoCall
    /\ \E D \in Demos :
           call' = [op |-> "u_hat_all", D |-> D, out |-> Returned(u_hat_all(D), <<>>)]
    /\ UNCHANGED <<mdp, model>>

\* the matrices u given to occupancy_freq_to_policy, in units of 1/One
OccupancyInputs == [states -> [actions -> {0, GridStep, One}]]

\* the vectors np.random.rand(A) of the fallback, one per state, in thirds;
\* a draw of A zeros (one chance in 2^(53 A)) is left out
RandInputs ==
    {r \in [states -> [actions -> 0 .. 2]] : \A s \in states : RowSum(r, s) > 0}

\* mdp.occupancy_freq_to_policy(u, force_deterministic)
CallOccupancyFreqToPolicy ==
    /\ model.status = "ok"
    /\ call = NoCall
    /\ \E u \in OccupancyInputs : \E force_deterministic \in BOOLEAN : \E rand \in RandInputs :
           call' = [op |-> "occupancy_freq_to_policy", u |-> u,
                    force_deterministic |-> force_deterministic,
                    out |-> Returned(occupancy_freq_to_policy(u, force_deterministic, rand),
                                     <<>>)]
    /\ UNCHANGED <<mdp, model>>

\* the ordinals of the optimize() calls of one solver call, 0 for no failure
AllTroubles == 0 .. (2 * num_features + 1)

\* the solvers on every flag and demonstration set, with a solver that fails
\* only on an infeasible LP
Next ==
    \/ NewMDP
    \/ CallChebyshevCenter(DemoInputs, {0})
    \/ CallChebPart2(DemoInputs, {0})
    \/ CallSyed(DemoInputs, {0})
    \/ CallWorstCaseRegret({0})
    \/ CallGenerateAllExpertDemonstrations

Spec == Init /\ [][Next]_vars

\* the solvers with a solver that may fail on any LP
NextTrouble ==
    \/ NewMDP
    \/ CallChebyshevCenter(FewDemoInputs, AllTroubles)
    \/ CallChebPart2(FewDemoInputs, AllTroubles)
    \/ CallSyed(FewDemoInputs, AllTroubles)
    \/ CallWorstCaseRegret(AllTroubles)

SpecTrouble == Init /\ [][NextTrouble]_vars

\* the functions of the class that solve no LP, on one well-formed MDP
InitPure ==
    /\ mdp = Mdp(KernelMove, P0Start, PhiMarks, RewardMove)
    /\ model = [status |-> "new"]
    /\ call = NoCall

NextPure ==
    \/ NewMDP
    \/ CallConstructConstraintVector
    \/ CallUHatAll
    \/ CallOccupancyFreqToPolicy

SpecPure == InitPure /\ [][NextPure]_vars

-----------------------------------------------------------------------------
(* Sampling.                                                               *)

\* np.random.choice(values, p=p) raises ValueError unless p sums to 1 (unit)
ChoiceRaises(p, unit) == SumOver(p, DOMAIN p) # unit
\* the values np.random.choice(values, p=p) can return
Choice(p) == {x \in DOMAIN p : p[x] > 0}

\* P[state, :, action]
TransitionRow(P, state, action) == [s2 \in states |-> P[state][s2][action]]

\* MDP.next_state: the states np.random.choice(self.states, p=P[state,:,action])
\* can return
next_state(P, state, action) == Choice(TransitionRow(P, state, action))

\* the actions np.random.choice(self.actions, p=policy[state, :]) can return,
\* policy being a matrix of fractions whose rows sum to 1
PolicySupport(policy) == [s \in states |-> {a \in actions : policy[s][a][1] > 0}]

\* scipy.special.softmax gives every action a positive probability
sigmoid_policy(theta) == [s \in states |-> actions]

\* a sampler at work: D the episodes appended so far, d the episode being
\* filled, cur_state the current state, draws the np.random.choice calls made
\* so far, by the distribution drawn from
SamplerStart == [raised |-> FALSE, D |-> <<>>, d |-> <<>>, cur_state |-> -1, draws |-> <<>>]

\* the draw "cur_state = np.random.choice(self.states, p=self.p_0)"
DrawInitialState(p_0, st) ==
    IF ChoiceRaises(p_0, One)
    THEN {[st EXCEPT !.raised = TRUE, !.draws = Append(@, "p_0")]}
    ELSE {[st EXCEPT !.cur_state = s0, !.draws = Append(@, "p_0")] : s0 \in Choice(p_0)}

RECURSIVE Steps(_, _, _, _, _)
\* the loop "for _ in range(horizon)" from step t on: draw the action, append
\* the pair, draw the next state
Steps(P, support, horizon, st, t) ==
    IF st.raised \/ t >= horizon THEN {st}
    ELSE UNION {
        IF ChoiceRaises(TransitionRow(P, st.cur_state, action), 1)
        THEN {[st EXCEPT !.raised = TRUE, !.draws = @ \o <<"policy", "P">>]}
        ELSE UNION { Steps(P, support, horizon,
                           [st EXCEPT !.d = Append(@, <<st.cur_state, action>>),
                                      !.cur_state = s2,
                                      !.draws = @ \o <<"policy", "P">>],
                           t + 1)
                     : s2 \in next_state(P, st.cur_state, action) }
        : action \in support[st.cur_state] }

\* "D.append(d)"
AppendEpisode(st) == IF st.raised THEN st ELSE [st EXCEPT !.D = Append(@, st.d)]

RECURSIVE ChainEpisodes(_, _, _, _, _, _)
\* the loop "for _ in range(episodes)" of generate_samples_from_policy from
\* episode e on: d = [], the steps, D.append(d); cur_state is carried over
ChainEpisodes(P, support, episodes, horizon, st, e) ==
    IF st.raised \/ e >= episodes THEN {st}
    ELSE UNION { ChainEpisodes(P, support, episodes, horizon, AppendEpisode(r), e + 1)
                 : r \in Steps(P, support, horizon, [st EXCEPT !.d = <<>>], 0) }

RECURSIVE FreshEpisodes(_, _, _, _, _, _)
\* the loop "for _ in range(0, episodes)" of
\* generate_samples_from_sigmoid_policy from episode e on: d = [], the draw
\* of cur_state from p_0, the steps, D.append(d)
FreshEpisodes(m, support, episodes, horizon, st, e) ==
    IF st.raised \/ e >= episodes THEN {st}
    ELSE UNION { UNION { FreshEpisodes(m, support, episodes, horizon, AppendEpisode(r), e + 1)
                         : r \in Steps(m.P, support, horizon, s0, 0) }
                 : s0 \in DrawInitialState(m.p_0, [st EXCEPT !.d = <<>>]) }

\* a faulty variant: the initial state is drawn anew for every episode
generate_samples_from_policy_fresh(m, episodes, horizon, policy) ==
    FreshEpisodes(m, PolicySupport(policy), episodes, horizon, SamplerStart, 0)

\* MDP.generate_samples_from_policy: every outcome the call can have
generate_samples_from_policy(m, episodes, horizon, policy) ==
    UNION { ChainEpisodes(m.P, PolicySupport(policy), episodes, horizon, s0, 0)
            : s0 \in DrawInitialState(m.p_0, SamplerStart) }

\* MDP.generate_samples_from_sigmoid_policy: every outcome the call can have
generate_samples_from_sigmoid_policy(m, theta, episodes, horizon) ==
    FreshEpisodes(m, sigmoid_policy(theta), episodes, horizon, SamplerStart, 0)

\* what a sampler's outcome gives the caller
SamplerOut(st) ==
    IF st.raised THEN Raised("ValueError", <<>>) ELSE Returned(st.D, <<>>)

-----------------------------------------------------------------------------
(* The adversarial solver (solve_GAIL), one action per step of its loop.   *)
(* theta and w are kept as what the code makes of them, not as numbers: a  *)
(* vector is the all-ones vector of its dimension with a number of updates *)
(* applied, the last one recorded by its sign and its rate.  A gradient is *)
(* kept as the versions of the values it was computed from.                *)

\* "for _ in range(20)"
GailIterations == 20
\* "learning_rate = 10000"
learning_rate == 10000
\* "gail_features = self.num_states * self.num_actions"
gail_features == num_states * num_actions

\* np.ones(self.num_actions*gail_features)
OnesVector == [dim |-> num_actions * gail_features, updates |-> 0, last |-> None]

\* "x += learning_rate * g" (sign 1) and "x -= learning_rate * g" (sign -1)
Update(x, sign) == [x EXCEPT !.updates = @ + 1, !.last = Some(<<sign, learning_rate>>)]

\* lines 655-665: the locals before the loop; u_e = self.u_hat_all(D_e)
GailEnter(D_e, episodes, horizon) ==
    [op |-> "solve_GAIL", pc |-> "loop", D_e |-> D_e, episodes |-> episodes,
     horizon |-> horizon, theta_cur |-> OnesVector, w_cur |-> OnesVector,
     u_e |-> [value |-> u_hat_all(D_e), computed |-> 1],
     i |-> 0, samples |-> 0, D_theta |-> None, u_theta |-> None,
     grad_w |-> None, Q |-> None, grad_theta |-> None, out |-> None]

\* lines 670-671: D_theta = generate_samples_from_sigmoid_policy(theta_cur, 1,
\* horizon), u_theta = u_hat_all(D_theta); iter is the iteration they belong to
GailSampleStep(m, c) ==
    { IF r.raised
      THEN [c EXCEPT !.pc = "raised", !.out = SamplerOut(r)]
      ELSE [c EXCEPT !.pc = "discriminator",
                     !.samples = @ + 1,
                     !.D_theta = [iter |-> c.i, theta |-> c.theta_cur.updates, D |-> r.D],
                     !.u_theta = [iter |-> c.i, value |-> u_hat_all(r.D)]]
      : r \in generate_samples_from_sigmoid_policy(m, c.theta_cur, 1, c.horizon) }

\* a faulty variant: w is updated before the gradient is computed
GailDiscriminatorStepLate(c) ==
    [c EXCEPT !.grad_w = [w |-> c.w_cur.updates + 1, u_theta |-> c.u_theta.iter,
                          D_theta |-> c.D_theta.iter, u_e |-> c.u_e.value],
              !.w_cur = Update(c.w_cur, 1),
              !.pc = "policy"]

\* lines 674-689: grad_w from D_w(s, a, w_cur), u_theta and u_e, then
\* "w_cur += learning_rate * grad_w"
GailDiscriminatorStep(c) ==
    [c EXCEPT !.grad_w = [w |-> c.w_cur.updates, u_theta |-> c.u_theta.iter,
                          D_theta |-> c.D_theta.iter, u_e |-> c.u_e.value],
              !.w_cur = Update(c.w_cur, 1),
              !.pc = "policy"]

\* lines 690-701: Q = self.Q(w_cur, u_theta, D_theta), grad_theta from Q,
\* log_expit(phi[s,a,:] @ w_cur) and grad_log_policy(theta_cur, s, a), then
\* "theta_cur -= learning_rate * grad_theta"; the iteration ends
GailPolicyStep(c) ==
    [c EXCEPT !.Q = [w |-> c.w_cur.updates, u_theta |-> c.u_theta.iter,
                     D_theta |-> c.D_theta.iter],
              !.grad_theta = [Q_w |-> c.w_cur.updates, w |-> c.w_cur.updates,
                              theta |-> c.theta_cur.updates,
                              u_theta |-> c.u_theta.iter, D_theta |-> c.D_theta.iter],
              !.theta_cur = Update(c.theta_cur, -1),
              !.i = @ + 1,
              !.pc = "loop"]

\* line 704: return self.verify_theta_return(theta_cur),
\* self.u_theta_matrix(theta_cur)
GailReturnStep(c) ==
    [c EXCEPT !.pc = "done",
              !.out = Returned(<< [by |-> "verify_theta_return", theta |-> c.theta_cur],
                                  [by |-> "u_theta_matrix", theta |-> c.theta_cur] >>, <<>>)]

\* "for _ in range(20)" has no iteration left
GailLoopEnds(c) == c.i >= GailIterations

-----------------------------------------------------------------------------
(* The state machine of the samplers and of the adversarial solver.        *)

\* a policy with mass on every action
UniformPolicy == [s \in states |-> [a \in actions |-> <<1, num_actions>>]]

\* the (episodes, horizon) the samplers are called with
SampleSizes == {eh \in (0 .. MaxPairs) \X (0 .. MaxPairs) : eh[1] * eh[2] <= MaxPairs}

\* mdp.generate_samples_from_policy(episodes, horizon, policy)
CallGenerateSamplesFromPolicy ==
    /\ model.status = "ok"
    /\ call = NoCall
    /\ \E eh \in SampleSizes : \E policy \in {model.opt_policy, UniformPolicy} :
       \E r \in generate_samples_from_policy(mdp, eh[1], eh[2], policy) :
           call' = [op |-> "generate_samples_from_policy", episodes |-> eh[1],
                    horizon |-> eh[2], policy |-> policy,
                    draws |-> r.draws, out |-> SamplerOut(r)]
    /\ UNCHANGED <<mdp, model>>

\* mdp.generate_samples_from_sigmoid_policy(theta, episodes, horizon)
CallGenerateSamplesFromSigmoidPolicy ==
    /\ model.status = "ok"
    /\ call = NoCall
    /\ \E eh \in SampleSizes :
       \E r \in generate_samples_from_sigmoid_policy(mdp, OnesVector, eh[1], eh[2]) :
           call' = [op |-> "generate_samples_from_sigmoid_policy", episodes |-> eh[1],
                    horizon |-> eh[2], theta |-> OnesVector,
                    draws |-> r.draws, out |-> SamplerOut(r)]
    /\ UNCHANGED <<mdp, model>>

NextSample ==
    \/ NewMDP
    \/ CallGenerateSamplesFromPolicy
    \/ CallGenerateSamplesFromSigmoidPolicy

SpecSample == Init /\ [][NextSample]_vars

\* mdp.solve_GAIL(D_e, episodes, horizon) is entered
CallSolveGAIL ==
    /\ model.status = "ok"
    /\ call = NoCall
    /\ \E D_e \in FewDemoInputs : \E episodes \in 1 .. 2 : \E horizon \in 0 .. MaxPairs :
           call' = GailEnter(D_e, episodes, horizon)
    /\ UNCHANGED <<mdp, model>>

GailSample ==
    /\ call.op = "solve_GAIL" /\ call.pc = "loop" /\ ~ GailLoopEnds(call)
    /\ call' \in GailSampleStep(mdp, call)
    /\ UNCHANGED <<mdp, model>>

GailDiscriminator ==
    /\ call.op = "solve_GAIL" /\ call.pc = "discriminator"
    /\ call' = GailDiscriminatorStep(call)
    /\ UNCHANGED <<mdp, model>>

GailPolicy ==
    /\ call.op = "solve_GAIL" /\ call.pc = "policy"
    /\ call' = GailPolicyStep(call)
    /\ UNCHANGED <<mdp, model>>

GailReturn ==
    /\ call.op = "solve_GAIL" /\ call.pc = "loop" /\ GailLoopEnds(call)
    /\ call' = GailReturnStep(call)
    /\ UNCHANGED <<mdp, model>>

NextGAIL ==
    \/ NewMDP
    \/ CallSolveGAIL
    \/ GailSample
    \/ GailDiscriminator
    \/ GailPolicy
    \/ GailReturn

SpecGAIL == Init /\ [][NextGAIL]_vars

-----------------------------------------------------------------------------
(* Arrays and who owns them.  In this state machine an array is a buffer   *)
(* of a heap (a sequence of contents, a buffer being named by its          *)
(* position); a Model attribute, an argument and a returned array are      *)
(* references to buffers, two views of one array being two references to   *)
(* one buffer.  An in-place statement of the code changes the content of a *)
(* buffer.  Occupancy frequencies are kept flattened with order="F".       *)

\* a new array: its buffer is the last of the heap
Alloc(h, v) == Append(h, v)

\* MDP.compute_phi_gail: phi_gail[s][a] is one-hot at a * gail_features + s
compute_phi_gail ==
    [s \in states |-> [a \in actions |->
        [f \in 0 .. (num_actions * gail_features - 1) |->
            IF f = a * gail_features + s THEN 1 ELSE 0]]]

\* MDP.__init__ on the heap: P, p_0, phi and reward are the caller's arrays,
\* reward_matrix and phi_matrix are views of reward and phi, u_E is a view of
\* the solver's u.X and u_E_flat a view of u_E
ConstructOnHeap(m, trouble) ==
    { IF mo.status # "ok" THEN mo
      ELSE LET h == << m.P, m.reward, m.phi, compute_phi_gail, m.p_0,
                       <<GammaNum, GammaDen>>, mo.IGammaPAStacked, mo.u_E_flat,
                       mo.opt_policy, FlattenF(mo.worst_u) >>
           IN  [status |-> "ok", heap |-> h, owned |-> Len(h),
                ref |-> [P |-> 1, reward |-> 2, reward_matrix |-> 2, phi |-> 3,
                         phi_matrix |-> 3, phi_gail |-> 4, p_0 |-> 5, gamma |-> 6,
                         IGammaPAStacked |-> 7, u_E |-> 8, u_E_flat |-> 8,
                         opt_policy |-> 9, worst_u |-> 10]]
      : mo \in Construct(m, trouble) }

\* what the methods read through self
SelfArgs(mo) ==
    Mdp(mo.heap[mo.ref.P], mo.heap[mo.ref.p_0], mo.heap[mo.ref.phi], mo.heap[mo.ref.reward])
SelfModel(mo) ==
    [status |-> "ok", u_E |-> ReshapeF(mo.heap[mo.ref.u_E]),
     u_E_flat |-> mo.heap[mo.ref.u_E_flat], opt_policy |-> mo.heap[mo.ref.opt_policy]]

\* the effect of a call on the heap: the heap it leaves and the buffers of
\* the arrays it returns
Effect(h, rets) == [heap |-> h, rets |-> rets]

\* "u_flat = u.X" of a solver whose outcome is o, the matrix at position idx
\* of its tuple, and "return u_flat.reshape((s, a), order="F"), ...": a new
\* array and a view of it
ReturnSolution(h, o, idx) ==
    IF o.raised THEN Effect(h, {})
    ELSE Effect(Alloc(h, FlattenF(o.ret[idx])), {Len(h) + 1})

\* lines 268-276: u_flat = u.X, the clamping loop writing into u_flat, and the
\* returned view of u_flat
ReturnClamped(h, o) ==
    IF o.raised THEN Effect(h, {})
    ELSE LET h1 == Alloc(h, FlattenF(o.ret[1]))
             b == Len(h1)
         IN  Effect([h1 EXCEPT ![b] = Clamp(@)], {b})

\* u_hat_all on the heap: u_hat = np.zeros(...), "u_hat[s,a] += ..." in
\* place, and the new array "u_hat / len(D)"
RunUHatAll(h, D) ==
    LET h1 == Alloc(h, FlattenF(ZeroMatrix))
        b == Len(h1)
        h2 == [h1 EXCEPT ![b] = FlattenF(AccumulateAll(ReshapeF(@), h[D], 1))]
    IN  Effect(Alloc(h2, FlattenF(u_hat_all(h[D]))), {Len(h2) + 1})

\* construct_constraint_vector on the heap: c = np.zeros(...), "c[state,
\* action] = 1" in place, and the flattened c
RunConstructConstraintVector(h, D_flat) ==
    LET h1 == Alloc(h, FlattenF(ZeroMatrix))
        b == Len(h1)
    IN  Effect([h1 EXCEPT ![b] = construct_constraint_vector(D_flat)], {b})

\* a faulty variant: the rows of u are overwritten and u is returned
RunOccupancyFreqToPolicyInPlace(h, u, force_deterministic, rand) ==
    Effect([h EXCEPT ![u] = occupancy_freq_to_policy(ReshapeF(@), force_deterministic, rand)],
           {u})

\* occupancy_freq_to_policy on the heap: policy = np.zeros((S, A)), its rows
\* assigned in place, policy returned; u is the buffer of the argument
RunOccupancyFreqToPolicy(h, u, force_deterministic, rand) ==
    LET h1 == Alloc(h, ZeroMatrix)
        b == Len(h1)
    IN  Effect([h1 EXCEPT ![b] = occupancy_freq_to_policy(ReshapeF(h[u]),
                                                         force_deterministic, rand)],
               {b})

\* solve_GAIL on the heap, its loop run to the end: the locals E_d_w_expert,
\* E_d_w_theta, grad_theta, theta_cur, w_cur (np.zeros / np.ones) and u_e
\* are new arrays, the statements "*= 0.0", "+=", "-=" write into those
\* locals, and the returned matrix is the new array of u_theta_matrix
RunSolveGAIL(h, D_e, raised) ==
    LET zeros == [dim |-> num_actions * gail_features, updates |-> 0, last |-> None]
        h1 == h \o << zeros, zeros, zeros, OnesVector, OnesVector, FlattenF(u_hat_all(h[D_e])) >>
        theta_cur == Len(h) + 4
        w_cur == Len(h) + 5
        updated == [dim |-> num_actions * gail_features, updates |-> GailIterations,
                    last |-> None]
        h2 == [h1 EXCEPT ![theta_cur] = [updated EXCEPT !.last = Some(<<-1, learning_rate>>)],
                         ![w_cur] = [updated EXCEPT !.last = Some(<<1, learning_rate>>)]]
    IN  IF raised THEN Effect(h1, {})
        ELSE Effect(Alloc(h2, [by |-> "u_theta_matrix", theta |-> h2[theta_cur]]),
                    {Len(h2) + 1})

\* the heap a call starts on: the Model's buffers and the caller's arrays
EnterWith(fresh) == [model EXCEPT !.heap = SubSeq(@, 1, model.owned) \o fresh]

\* a call ends: pre is the Model and the heap at entry, args the buffers of
\* the arguments, eff the effect of the call
Leave(op, pre, args, eff, out) ==
    /\ model' = [pre EXCEPT !.heap = eff.heap]
    /\ call' = [op |-> op, pre |-> pre, args |-> args, rets |-> eff.rets, out |-> out]
    /\ UNCHANGED mdp

NoArgs == [x \in {} |-> 0]

NewMDPOnHeap ==
    /\ model.status = "new"
    /\ model' \in ConstructOnHeap(mdp, 0)
    /\ UNCHANGED <<mdp, call>>

FramePutterman ==
    /\ model.status = "ok"
    /\ call = NoCall
    /\ \E pre \in {EnterWith(<<>>)} :
       \E o \in solve_putterman_dual_LP_for_Opt_policy(SelfArgs(pre), FALSE) :
           Leave("solve_putterman_dual_LP_for_Opt_policy", pre, NoArgs,
                 ReturnClamped(pre.heap, o), o)

FrameSolveWorst ==
    /\ model.status = "ok"
    /\ call = NoCall
    /\ \E pre \in {EnterWith(<<>>)} : \E o \in solve_worst(SelfArgs(pre), FALSE) :
           Leave("solve_worst", pre, NoArgs, ReturnSolution(pre.heap, o, 1), o)

\* the three Chebyshev / Syed solvers, D being the caller's list
FrameSolvers ==
    /\ model.status = "ok"
    /\ call = NoCall
    /\ \E D \in FewDemoInputs : \E D_flat \in Orders(D_flatOf(D)) :
       \E pre \in {EnterWith(<<D>>)} :
       \E flag \in BOOLEAN :
          \/ \E o \in solve_chebyshev_center(SelfArgs(pre), D, D_flat, 0) :
                 Leave("solve_chebyshev_center", pre, [D |-> pre.owned + 1],
                       ReturnSolution(pre.heap, o, 1), o)
          \/ \E w_sampled \in (IF flag THEN SampledMatrices ELSE {<<>>}) :
             \E o \in solve_cheb_part_2(SelfArgs(pre), SelfModel(pre), D, D_flat,
                                        flag, FALSE, None, flag, w_sampled, 0) :
                 Leave("solve_cheb_part_2", pre, [D |-> pre.owned + 1],
                       ReturnSolution(pre.heap, o, 2), o)
          \/ \E o \in solve_syed(SelfArgs(pre), D, D_flat, flag, 0) :
                 Leave("solve_syed", pre, [D |-> pre.owned + 1],
                       ReturnSolution(pre.heap, o, 1), o)

\* the arrays a caller passes as u: one of its own (fresh holds it), or the
\* Model's u_E / u_E_flat itself
UArguments(fresh) ==
    { <<fresh, model.owned + Len(fresh)>> } \cup { <<SubSeq(fresh, 1, Len(fresh) - 1), model.ref.u_E>> }

\* worst_case_regret(D, u): it returns a number
FrameWorstCaseRegret ==
    /\ model.status = "ok"
    /\ call = NoCall
    /\ \E D \in FewDemoInputs : \E D_flat \in Orders(D_flatOf(D)) :
       \E u \in {model.heap[model.ref.worst_u], FlattenF(ZeroMatrix)} :
       \E fa \in UArguments(<<D, u>>) : \E pre \in {EnterWith(fa[1])} :
           Leave("worst_case_regret", pre, [D |-> pre.owned + 1, u |-> fa[2]],
                 Effect(pre.heap, {}),
                 worst_case_regret(SelfArgs(pre), SelfModel(pre), D, D_flat,
                                   pre.heap[fa[2]], 0))

FrameSolveGAIL ==
    /\ model.status = "ok"
    /\ call = NoCall
    /\ \E D_e \in FewDemoInputs : \E horizon \in 0 .. MaxPairs :
       \E pre \in {EnterWith(<<D_e>>)} :
       \E raised \in {r.raised : r \in generate_samples_from_sigmoid_policy(
                                          SelfArgs(pre), OnesVector, 1, horizon)} :
       \E eff \in {RunSolveGAIL(pre.heap, pre.owned + 1, raised)} :
           Leave("solve_GAIL", pre, [D_e |-> pre.owned + 1], eff,
                 IF raised THEN Raised("ValueError", <<>>)
                 ELSE Returned(<< [by |-> "verify_theta_return",
                                   theta |-> eff.heap[pre.owned + 5]],
                                  eff.heap[Len(eff.heap)] >>, <<>>))

FrameUHatAll ==
    /\ model.status = "ok"
    /\ call = NoCall
    /\ \E D \in DemoInputs : \E pre \in {EnterWith(<<D>>)} :
       \E eff \in {RunUHatAll(pre.heap, pre.owned + 1)} :
           Leave("u_hat_all", pre, [D |-> pre.owned + 1], eff,
                 Returned(ReshapeF(eff.heap[Len(eff.heap)]), <<>>))

FrameConstructConstraintVector ==
    /\ model.status = "ok"
    /\ call = NoCall
    /\ \E D \in DemoInputs : \E D_flat \in Orders(D_flatOf(D)) :
       \E pre \in {EnterWith(<<D_flat>>)} :
       \E eff \in {RunConstructConstraintVector(pre.heap, D_flat)} :
           Leave("construct_constraint_vector", pre, [D |-> pre.owned + 1], eff,
                 Returned(eff.heap[Len(eff.heap)], <<>>))

FrameOccupancyFreqToPolicy ==
    /\ model.status = "ok"
    /\ call = NoCall
    /\ \E u \in {FlattenF(x) : x \in {[s \in states |-> [a \in actions |-> x0[s]]]
                                       : x0 \in [states -> {0, One}]}} :
       \E fa \in UArguments(<<u>>) : \E pre \in {EnterWith(fa[1])} :
       \E force_deterministic \in BOOLEAN : \E rand \in RandInputs :
       \E eff \in {RunOccupancyFreqToPolicy(pre.heap, fa[2], force_deterministic, rand)} :
           Leave("occupancy_freq_to_policy", pre, [u |-> fa[2]], eff,
                 Returned(eff.heap[Len(eff.heap)], <<>>))

NextFrame ==
    \/ NewMDPOnHeap
    \/ FramePutterman
    \/ FrameSolveWorst
    \/ FrameSolvers
    \/ FrameWorstCaseRegret
    \/ FrameSolveGAIL
    \/ FrameUHatAll
    \/ FrameConstructConstraintVector
    \/ FrameOccupancyFreqToPolicy

SpecFrame == Init /\ [][NextFrame]_vars

-----------------------------------------------------------------------------
(* Properties.                                                             *)

\* C1: construct_constraint_vector returns c with c[a*S+s] = 1 exactly when
\* the state s appears in some pair of D_flat and the pair (s, a) itself does
\* not, also when a state appears with several actions; a state that never
\* appears has an all-zero row.
C1_ConstraintVectorExact ==
    call.op = "construct_constraint_vector" =>
        \A s \in states, a \in actions :
            call.out.ret[Idx(s, a)] =
                IF (\E b \in actions : <<s, b>> \in D_flatOf(call.D))
                       /\ <<s, a>> \notin D_flatOf(call.D)
                THEN 1 ELSE 0

\* the radius and the occupancy frequency a returned Chebyshev call gave
RadiusOf(c) == c.out.ret[UIndex(c.op) + 1]

\* C2 as claimed: the radius returned by solve_chebyshev_center, and by
\* solve_cheb_part_2 without pruning for every add_lin_constr,
\* add_linf_constr and eps, is at least worst_case_regret(D, u) on the u the
\* same call returned.
C2_RadiusBoundsRegretAnyFlags ==
    (/\ call.op = "worst_case_regret"
     /\ ~ call.out.raised
     /\ call.of.op = "solve_cheb_part_2" => ~ call.of.prune)
        => RadiusOf(call.of) >= call.out.ret

\* C2 as amended: the same, with solve_cheb_part_2 called with
\* add_linf_constr = False (the inner maximizations then range over a set
\* that contains the one worst_case_regret maximizes over).
C2_RadiusBoundsRegret ==
    (/\ call.op = "worst_case_regret"
     /\ ~ call.out.raised
     /\ call.of.op = "solve_cheb_part_2" => (~ call.of.prune /\ ~ call.of.add_linf_constr))
        => RadiusOf(call.of) >= call.out.ret

C2_Witness ==
    /\ call.op = "worst_case_regret"
    /\ ~ call.out.raised
    /\ call.of.op = "solve_cheb_part_2"
    /\ ~ call.of.prune /\ ~ call.of.add_linf_constr /\ call.of.add_lin_constr
    /\ call.out.ret > 0
    /\ RadiusOf(call.of) >= call.out.ret

\* C3: in every solver call, an LP whose status is not optimal is the last
\* LP the call solves, and the call then raises: it returns no result.  The
\* same for the two LPs of the constructor, which then leaves no Model.
C3_NonOptimalAborts ==
    /\ call.op \in {"solve_chebyshev_center", "solve_cheb_part_2", "solve_syed",
                    "worst_case_regret"} =>
           \A i \in 1 .. Len(call.out.lps) :
               call.out.lps[i] # "OPTIMAL" =>
                   /\ i = Len(call.out.lps)
                   /\ call.out.raised
                   /\ call.out.error = "ValueError"
                   /\ "ret" \notin DOMAIN call.out
    /\ model.status # "new" =>
           \A i \in 1 .. Len(model.lps) :
               model.lps[i] # "OPTIMAL" =>
                   /\ i = Len(model.lps)
                   /\ model.status = "error"
                   /\ model.error = "ValueError"

C3_Witness ==
    /\ call.op = "solve_cheb_part_2"
    /\ ~ call.prune
    /\ call.out.raised
    /\ call.out.lps = <<"OPTIMAL", "SUBOPTIMAL">>

\* some row P[s, :, a] does not sum to 1
BadRows(P) ==
    \E s \in states, a \in actions : SumOver([s2 \in states |-> P[s][s2][a]], states) # 1

\* C4: constructing a Model fails, leaving no Model, whenever a row
\* P[s, :, a] does not sum to 1, whenever p_0 does not sum to 1, or whenever
\* an LP of the construction is not reported optimal.
C4_ConstructionFails ==
    (/\ model.status # "new"
     /\ \/ BadRows(mdp.P)
        \/ SumOver(mdp.p_0, states) # One
        \/ \E i \in 1 .. Len(model.lps) : model.lps[i] # "OPTIMAL")
        => model.status = "error"

\* the total mass of u_flat is within 1e-2 of 1 / (1 - gamma)
MassWithinTolerance(u_flat) == 100 * Abs(SumFlat(u_flat) - TotalMass) < One

\* C5: solve_putterman_dual_LP_for_Opt_policy and solve_cheb_part_2 return an
\* occupancy frequency only when its total mass is within 1e-2 of
\* 1 / (1 - gamma), too small as well as too large.
C5_MassTwoSided ==
    /\ model.status = "ok" => MassWithinTolerance(model.u_E_flat)
    /\ (call.op = "solve_cheb_part_2" /\ ~ call.out.raised)
           => MassWithinTolerance(FlattenF(call.out.ret[2]))

\* the sum of two fractions
FracAdd(x, y) == <<x[1] * y[2] + y[1] * x[2], x[2] * y[2]>>

RECURSIVE RowFracSum(_, _)
\* row[a] + ... + row[num_actions - 1], a fraction
RowFracSum(row, a) ==
    IF a > num_actions - 1 THEN <<0, 1>> ELSE FracAdd(row[a], RowFracSum(row, a + 1))

\* C6: for a non-negative u, occupancy_freq_to_policy(u, True) returns
\* one-hot rows, the 1 at an arg-max action of u[s, :], and
\* occupancy_freq_to_policy(u, False) returns non-negative rows that sum to 1,
\* also for the rows of u without mass.
C6_PolicyRows ==
    call.op = "occupancy_freq_to_policy" =>
        \A s \in states :
            LET row == call.out.ret[s]
            IN  IF call.force_deterministic
                THEN \E a \in actions :
                        /\ row[a] = <<1, 1>>
                        /\ \A b \in actions : call.u[s][b] <= call.u[s][a]
                        /\ \A b \in actions \ {a} : row[b] = <<0, 1>>
                ELSE /\ \A a \in actions : row[a][1] >= 0 /\ row[a][2] > 0
                     /\ RowFracSum(row, 0)[1] = RowFracSum(row, 0)[2]

C6_Witness ==
    /\ call.op = "occupancy_freq_to_policy"
    /\ ~ call.force_deterministic
    /\ RowSum(call.u, 0) = 0
    /\ RowSum(call.u, 1) > 0
    /\ call.out.ret[0][0][1] > 0 /\ call.out.ret[0][1][1] > 0
    /\ C6_PolicyRows

\* the sum of gamma^t over every visit of (s, a), at step t, by a trajectory of D
VisitSum(D, s, a) ==
    SumOver([i \in 1 .. Len(D) |->
                SumOver([k \in 1 .. Len(D[i]) |->
                            IF D[i][k] = <<s, a>> THEN GammaPow(k - 1) ELSE 0],
                        1 .. Len(D[i]))],
            1 .. Len(D))

\* C7: u_hat_all(D)[s, a] is 1/|D| times the sum of gamma^t over the visits
\* of (s, a), and for every split of D into non-empty D1 ++ D2,
\* |D| * u_hat_all(D) = |D1| * u_hat_all(D1) + |D2| * u_hat_all(D2).
C7_EmpiricalOccupancy ==
    call.op = "u_hat_all" =>
        \A s \in states, a \in actions :
            /\ Len(call.D) * call.out.ret[s][a] = VisitSum(call.D, s, a)
            /\ \A n \in 1 .. (Len(call.D) - 1) :
                   Len(call.D) * call.out.ret[s][a]
                       = n * u_hat_all(SubSeq(call.D, 1, n))[s][a]
                         + (Len(call.D) - n)
                               * u_hat_all(SubSeq(call.D, n + 1, Len(call.D)))[s][a]

C7_Witness ==
    /\ call.op = "u_hat_all"
    /\ Len(call.D) = 2
    /\ Len(call.D[1]) = 2 /\ Len(call.D[2]) = 1
    /\ call.D[1][2] = call.D[2][1]
    /\ C7_EmpiricalOccupancy

\* C8: the u returned by solve_chebyshev_center, by solve_cheb_part_2 under
\* every add_lin_constr, add_linf_constr and prune, and by solve_syed with
\* add_lin_constr = True, is 0 wherever construct_constraint_vector(D_flat)
\* is 1.
C8_NoMassOnForbidden ==
    (/\ call.op \in {"solve_chebyshev_center", "solve_cheb_part_2", "solve_syed"}
     /\ ~ call.out.raised
     /\ call.op = "solve_syed" => call.add_lin_constr)
        => LET c == construct_constraint_vector(call.D_flat)
               u == FlattenF(call.out.ret[UIndex(call.op)])
           IN  \A j \in Flat : c[j] = 1 => u[j] = 0

C8_Witness ==
    /\ call.op = "solve_cheb_part_2"
    /\ ~ call.out.raised
    /\ call.prune /\ ~ call.add_lin_constr
    /\ \E j \in Flat : construct_constraint_vector(call.D_flat)[j] = 1
    /\ C8_NoMassOnForbidden

C10_PassedEpsUsed ==
    (/\ call.op = "solve_cheb_part_2"
     /\ ~ call.out.raised
     /\ call.passed_eps # None)
        => call.out.ret[1] = call.passed_eps[1]

\* P is row-stochastic and p_0 sums to 1 (gamma = GammaNum / GammaDen < 1)
ValidModel(m) == ~ BadRows(m.P) /\ SumOver(m.p_0, states) = One

\* (W.T @ u)[s2] - p_0[s2], times GammaDen, written out from P and the
\* S x A matrix u: what leaves s2 minus gamma times what enters it
FlowResidual(m, u, s2) ==
    GammaDen * SumOver([a \in actions |-> u[s2][a]], actions)
        - GammaNum * SumOver([s \in states |->
              SumOver([a \in actions |-> m.P[s][s2][a] * u[s][a]], actions)], states)
        - GammaDen * m.p_0[s2]

\* C11: for a valid Model (P row-stochastic, p_0 summing to 1, gamma < 1) the
\* u_E that solve_putterman_dual_LP_for_Opt_policy returns has every entry
\* >= 0, satisfies W.T @ u = p_0 after the clamping, and has total mass
\* 1 / (1 - gamma) within 1e-2.
C11_PuttermanFeasible ==
    (model.status = "ok" /\ ValidModel(mdp)) =>
        /\ \A s \in states, a \in actions : model.u_E[s][a] >= 0
        /\ \A s2 \in states : FlowResidual(mdp, model.u_E, s2) = 0
        /\ MassWithinTolerance(model.u_E_flat)

C11_Witness ==
    /\ model.status = "ok" /\ ValidModel(mdp)
    /\ mdp.p_0 = P0Even
    /\ \E s \in states, a \in actions : model.u_E[s][a] = 0
    /\ \A s \in states : RowSum(model.u_E, s) > 0
    /\ C11_PuttermanFeasible

\* a second solve_cheb_part_2 call with the Model, the D and the flag values
\* of the call just made, the sampling of that second call producing w: its
\* outcomes (one per choice the solver has among optimal points)
SecondCall(w) ==
    solve_cheb_part_2(mdp, model, call.D, call.D_flat, call.add_lin_constr,
                      call.add_linf_constr, call.passed_eps, call.prune, w, 0)

\* what the sampling of a second call can leave in w_i_mat
Redraws == SampledMatrices \cup {<<>>}

ReturnedU == call.out.ret[UIndex(call.op)]
ReturnedValue == call.out.ret[IF call.op = "solve_cheb_part_2" THEN 4 ELSE 3]

\* sum over all pairs (s, a) of u[s][a] * reward[a * S + s]
PairReturn(u, reward) ==
    SumOver([s \in states |->
        SumOver([a \in actions |-> u[s][a] * reward[a * num_states + s]], actions)], states)

\* the first pair of state s in the iteration order D_flat, if any
FirstSeen(D_flat, s) ==
    {D_flat[i] : i \in {i \in 1 .. Len(D_flat) :
        D_flat[i][1] = s /\ \A j \in 1 .. (i - 1) : D_flat[j][1] # s}}

\* C13: the index a * S + s stands for the pair (s, a) everywhere: in the
\* rows of W (e_s - gamma * P[s, :, a]), in u_E_flat, in the reward vector and
\* the rows of phi, in the constraint vector c, and in the S x A matrix every
\* solver returns from its flat solution (which therefore satisfies the flow
\* equations of P pair by pair and has the returned value as its return).
C13_OneIndexMapping ==
    /\ model.status = "ok" =>
         /\ \A s \in states, a \in actions :
              /\ \A s2 \in states :
                     model.IGammaPAStacked[a * num_states + s][s2]
                         = GammaDen * (IF s = s2 THEN 1 ELSE 0) - GammaNum * mdp.P[s][s2][a]
              /\ model.u_E_flat[a * num_states + s] = model.u_E[s][a]
              /\ model.reward_matrix[s][a] = mdp.reward[a * num_states + s]
              /\ \A k \in features :
                     model.phi_matrix[s][a][k] = mdp.phi[a * num_states + s][k]
         /\ \A s2 \in states :
                FlowResidual(mdp, model.u_E, s2) = 0 /\ FlowResidual(mdp, model.worst_u, s2) = 0
         /\ model.opt_return = PairReturn(model.u_E, mdp.reward)
         /\ model.worst_return = PairReturn(model.worst_u, mdp.reward)
    /\ call.op \in {"solve_chebyshev_center", "solve_cheb_part_2", "solve_syed"} =>
         /\ \A s \in states, a \in actions :
                construct_constraint_vector(call.D_flat)[a * num_states + s]
                    = IF \E p \in FirstSeen(call.D_flat, s) : p[2] # a THEN 1 ELSE 0
         /\ ~ call.out.raised =>
              /\ \A s2 \in states : FlowResidual(mdp, ReturnedU, s2) = 0
              /\ ReturnedValue = PairReturn(ReturnedU, mdp.reward)

\* a returned matrix and a constraint vector that a transposed reading of the
\* index would change
C13_Witness ==
    /\ call.op \in {"solve_chebyshev_center", "solve_cheb_part_2", "solve_syed"}
    /\ ~ call.out.raised
    /\ ReturnedU[0][1] # ReturnedU[1][0]
    /\ construct_constraint_vector(call.D_flat)[1] # construct_constraint_vector(call.D_flat)[2]
    /\ mdp.reward[1] # mdp.reward[2]
    /\ C13_OneIndexMapping

\* the buffers of the Model attributes and of the arguments at the entry of
\* the call just made
HeldAtEntry ==
    {call.pre.ref[attr] : attr \in DOMAIN call.pre.ref}
        \cup {call.args[x] : x \in DOMAIN call.args}

\* C14: a call of a solver or estimator on a constructed Model leaves every
\* Model attribute bound to the buffer it was bound to, leaves the content of
\* every buffer of an attribute or of an argument (D, u) as it was at entry,
\* and returns only arrays whose buffers the call itself allocated.
C14_Frame ==
    (call.op # "none" /\ model.status = "ok") =>
        /\ model.ref = call.pre.ref
        /\ \A b \in HeldAtEntry : model.heap[b] = call.pre.heap[b]
        /\ \A r \in call.rets : r > Len(call.pre.heap)

\* occupancy_freq_to_policy called on the Model's own u_E, a policy returned
C14_Witness ==
    /\ call.op = "occupancy_freq_to_policy"
    /\ call.args.u = model.ref.u_E
    /\ call.rets # {}
    /\ \E s \in states : call.out.ret[s][0] # <<0, 1>> /\ call.out.ret[s][1] # <<0, 1>>
    /\ C14_Frame

\* C15: in every iteration of solve_GAIL (i iterations being complete),
\* first one trajectory is sampled from the policy of the theta of the start
\* of the iteration; then grad_w is computed with the w of the start of the
\* iteration and w becomes w + learning_rate * grad_w; then Q and grad_theta
\* are computed with that updated w and the theta not yet updated, and theta
\* becomes theta - learning_rate * grad_theta; u_e is computed from D_e once,
\* before the loop, and every gradient uses that value.
C15_StepOrder ==
    call.op = "solve_GAIL" =>
        /\ call.u_e = [value |-> u_hat_all(call.D_e), computed |-> 1]
        /\ call.pc = "discriminator" =>
              /\ Len(call.D_theta.D) = 1
              /\ call.D_theta.iter = call.i /\ call.D_theta.theta = call.i
              /\ call.u_theta.iter = call.i
              /\ call.theta_cur.updates = call.i /\ call.w_cur.updates = call.i
        /\ call.pc = "policy" =>
              /\ call.grad_w = [w |-> call.i, u_theta |-> call.i, D_theta |-> call.i,
                                u_e |-> u_hat_all(call.D_e)]
              /\ call.w_cur.updates = call.i + 1
              /\ call.w_cur.last = Some(<<1, learning_rate>>)
              /\ call.theta_cur.updates = call.i
              /\ call.D_theta.theta = call.i
        /\ (call.pc \in {"loop", "done"} /\ call.i > 0) =>
              /\ call.grad_w.w = call.i - 1
              /\ call.Q = [w |-> call.i, u_theta |-> call.i - 1, D_theta |-> call.i - 1]
              /\ call.grad_theta = [Q_w |-> call.i, w |-> call.i, theta |-> call.i - 1,
                                    u_theta |-> call.i - 1, D_theta |-> call.i - 1]
              /\ call.theta_cur.updates = call.i
              /\ call.theta_cur.last = Some(<<-1, learning_rate>>)
              /\ call.w_cur.updates = call.i

\* the third iteration has just ended, on a trajectory with pairs
C15_Witness ==
    /\ call.op = "solve_GAIL" /\ call.pc = "loop" /\ call.i = 3
    /\ Len(call.D_theta.D[1]) > 1
    /\ C15_StepOrder

\* C16: solve_GAIL starts from theta = w = the all-ones vector of dimension
\* A*S*A and, for every input, ends only by returning, after exactly
\* GailIterations iterations whatever episodes is, each having sampled one
\* trajectory of horizon pairs, with the return and the occupancy frequency
\* that verify_theta_return and u_theta_matrix compute from the final theta.
C16_TwentyIterations ==
    call.op = "solve_GAIL" =>
        /\ call.pc # "raised"
        /\ call.i <= GailIterations
        /\ (call.i = 0 /\ call.samples = 0) =>
              /\ call.theta_cur = [dim |-> num_actions * num_states * num_actions,
                                   updates |-> 0, last |-> None]
              /\ call.w_cur = call.theta_cur
        /\ call.D_theta # None =>
              /\ Len(call.D_theta.D) = 1
              /\ Len(call.D_theta.D[1]) = call.horizon
        /\ call.pc = "done" =>
              /\ call.i = GailIterations /\ call.samples = GailIterations
              /\ call.theta_cur.updates = GailIterations
              /\ call.out = Returned(<< [by |-> "verify_theta_return", theta |-> call.theta_cur],
                                        [by |-> "u_theta_matrix", theta |-> call.theta_cur] >>,
                                     <<>>)

\* the directions of a solve_cheb_part_2 call: the sampled ones when pruning,
\* the signed unit vectors otherwise
CallDirections == IF call.prune THEN call.w_sampled ELSE UnitDirections

\* the empirical score u_e_hat @ phi @ w_i of direction i of the call
CallScore ==
    [i \in DOMAIN CallDirections |->
        Project(FlattenF(u_hat_all(call.D)), mdp.phi, CallDirections[i])]

\* the directions whose score is at least the 0.9 quantile of the scores
TopDecile == {i \in DOMAIN CallDirections : 10 * CallScore[i] >= Quantile90x10(CallScore)}

\* the feasible set of the inner maximization of the call, eps as returned
CallInnerFeasible ==
    InnerFeasible(FlowPoints[mdp.P, mdp.p_0], construct_constraint_vector(call.D_flat),
                  FlattenF(u_hat_all(call.D)), mdp.phi, call.out.ret[1],
                  call.add_lin_constr, call.add_linf_constr)

\* what direction i would demand of sigma at the returned u, had its LP been solved
Demand(V, i) ==
    SetMax({Project(v, mdp.phi, CallDirections[i]) : v \in V})
        - Project(FlattenF(call.out.ret[2]), mdp.phi, CallDirections[i])

\* C17: solve_cheb_part_2 with prune=True generates SampledPoints directions
\* (100 in the code) and solves the inner LP for exactly the directions whose
\* empirical score is at least the 0.9 quantile of the scores; the others get
\* no LP and bound sigma by nothing: the returned radius is the largest demand
\* of the solved directions only (or 0).  With prune=False the LP is solved
\* for all 2K signed unit directions.
C17_PruneTopDecile ==
    call.op = "solve_cheb_part_2" =>
        /\ call.prune =>
              /\ DOMAIN call.w_sampled = 0 .. (SampledPoints - 1)
              /\ TopDecile # {}
              /\ Len(call.out.lps) <= Cardinality(TopDecile) + 1
        /\ ~ call.out.raised =>
              \A V \in {CallInnerFeasible} :
                 /\ call.prune =>
                       /\ Len(call.out.lps) = Cardinality(TopDecile) + 1
                       /\ call.out.ret[3] = SetMax({0} \cup {Demand(V, i) : i \in TopDecile})
                 /\ ~ call.prune =>
                       /\ Len(call.out.lps) = 2 * num_features + 1
                       /\ call.out.ret[3] =
                              SetMax({0} \cup {Demand(V, i) : i \in 0 .. (2 * num_features - 1)})

\* C17 witness: a pruning call returned after solving one direction and
\* skipping another, and the skipped direction would have demanded a larger
\* sigma than the radius returned
C17_Witness ==
    /\ call.op = "solve_cheb_part_2"
    /\ call.prune
    /\ ~ call.out.raised
    /\ \E i \in DOMAIN call.w_sampled \ TopDecile :
           Demand(CallInnerFeasible, i) > call.out.ret[3]
    /\ Len(call.out.lps) = 2

\* how many of the np.random.choice calls of the call drew from p_0
InitialDraws == Cardinality({j \in DOMAIN call.draws : call.draws[j] = "p_0"})

\* the position in call.draws of the first draw of episode e (from 1): every
\* step makes two draws, the action and the next state
EpisodeStart(e) == (e - 1) * (2 * call.horizon + 1) + 1

\* C18: generate_samples_from_policy returns episodes trajectories of horizon
\* pairs each; it draws from p_0 once, before anything else, and the first
\* state of every later episode is a successor under P of the last pair of
\* the episode before.  generate_samples_from_sigmoid_policy returns the same
\* shape but draws the first state of every episode from p_0.
C18_OneChain ==
    /\ call.op = "generate_samples_from_policy" =>
          /\ InitialDraws = 1
          /\ call.draws[1] = "p_0"
          /\ ~ call.out.raised =>
                /\ Len(call.out.ret) = call.episodes
                /\ \A e \in 1 .. call.episodes : Len(call.out.ret[e]) = call.horizon
                /\ Len(call.draws) = 1 + 2 * call.episodes * call.horizon
                /\ call.horizon > 0 =>
                      /\ call.episodes > 0 => call.out.ret[1][1][1] \in Choice(mdp.p_0)
                      /\ \A e \in 2 .. call.episodes :
                            call.out.ret[e][1][1] \in
                                next_state(mdp.P, call.out.ret[e - 1][call.horizon][1],
                                                  call.out.ret[e - 1][call.horizon][2])
    /\ (call.op = "generate_samples_from_sigmoid_policy" /\ ~ call.out.raised) =>
                /\ Len(call.out.ret) = call.episodes
                /\ \A e \in 1 .. call.episodes : Len(call.out.ret[e]) = call.horizon
                /\ InitialDraws = call.episodes
                /\ \A e \in 1 .. call.episodes :
                      /\ call.draws[EpisodeStart(e)] = "p_0"
                      /\ call.horizon > 0 => call.out.ret[e][1][1] \in Choice(mdp.p_0)

\* C18 witness: generate_samples_from_policy returned several episodes and a
\* later one starts in a state p_0 gives no mass, reached from the last pair
\* of the episode before
C18_Witness ==
    /\ call.op = "generate_samples_from_policy"
    /\ ~ call.out.raised
    /\ call.horizon > 0
    /\ \E e \in 2 .. call.episodes :
          /\ call.out.ret[e][1][1] \notin Choice(mdp.p_0)
          /\ call.out.ret[e][1][1] \in
                next_state(mdp.P, call.out.ret[e - 1][call.horizon][1],
                                  call.out.ret[e - 1][call.horizon][2])

====
